---- MODULE Spec2Model ----
(***************************************************************************)
(* The scan loop of oracle-postprocess (src/main.rs): one forward pass     *)
(* over the events of an rbxlx document, the in_script flag with its two   *)
(* scratch strings, the per-Item service exchange and the final write of   *)
(* the output buffer.                                                      *)
(*                                                                         *)
(* Text is a sequence of tokens.  Every token stands for a fixed piece of  *)
(* text, and no token's text overlaps another's, so matching on tokens is  *)
(* matching on the characters they stand for:                              *)
(*   PFX  "-- "                  BCH  "Bytecode (Base64):"                 *)
(*   LF   line feed              CR   carriage return                      *)
(*   any other token: a run of characters without '-', CR or LF.           *)
(***************************************************************************)
EXTENDS Integers, Sequences, FiniteSets, TLC

PFX == "-- "
BCH == "Bytecode (Base64):"
LF == "<LF>"
CR == "<CR>"

\* ------------------------------------------------------------------ bounds

\* Deepest nesting of Items in a document.
MaxDepth == 2
\* Most recognized script Items in one document.
MaxCand == 2
\* Longest payload, in tokens, of the exhaustive payload set of SpecText.
MaxLen == 5
\* Longest document, in events, of the recorded documents of SpecOut.
MaxDoc == 3

\* ------------------------------------------------------------------ text

\* script_source.lines().take(6): the number of lines kept for the watermark.
WatermarkLines == 6

Min(a, b) == IF a < b THEN a ELSE b

\* Index of the first LF of s at or after i; 0 when there is none.
RECURSIVE FindLF(_, _)
FindLF(s, i) ==
    IF i > Len(s) THEN 0
    ELSE IF s[i] = LF THEN i
    ELSE FindLF(s, i + 1)

\* One line of str::lines(): the terminating LF is already cut off; a CR that
\* stood right before that LF is cut off too.
StripCR(line) ==
    IF Len(line) > 0 /\ line[Len(line)] = CR
    THEN SubSeq(line, 1, Len(line) - 1)
    ELSE line

\* str::lines(): split after every LF, drop the LF and a CR before it.  The
\* last line needs no LF and keeps a bare trailing CR; text that ends with a
\* LF has no further (empty) line after it.
RECURSIVE Lines(_)
Lines(s) ==
    IF Len(s) = 0 THEN << >>
    ELSE LET i == FindLF(s, 1) IN
         IF i = 0 THEN << s >>
         ELSE << StripCR(SubSeq(s, 1, i - 1)) >> \o Lines(SubSeq(s, i + 1, Len(s)))

\* [&str]::join("\n")
RECURSIVE Join(_)
Join(ls) ==
    IF Len(ls) = 0 THEN << >>
    ELSE IF Len(ls) = 1 THEN ls[1]
    ELSE ls[1] \o << LF >> \o Join(Tail(ls))

Take(ls, n) == SubSeq(ls, 1, Min(n, Len(ls)))

\* script_source.lines().take(6).collect::<Vec<_>>().join("\n")
Watermark(s) == Join(Take(Lines(s), WatermarkLines))

\* The regex -- Bytecode \(Base64\):\n-- (.*)\n\n tried at position i of s:
\* the literal header, LF, "-- ", then the greedy (.*), which cannot cross a
\* LF and so runs to the next LF, which must be followed by one more LF.
NoMatch == [some |-> FALSE, val |-> << >>]

\* The pattern without its last \n.
MatchAt_NoBlankLine(s, i) ==
    IF /\ i + 3 <= Len(s)
       /\ s[i] = PFX /\ s[i + 1] = BCH /\ s[i + 2] = LF /\ s[i + 3] = PFX
    THEN LET j == FindLF(s, i + 4) IN
         IF j > 0
         THEN [some |-> TRUE, val |-> SubSeq(s, i + 4, j - 1)]
         ELSE NoMatch
    ELSE NoMatch

MatchAt(s, i) ==
    IF /\ i + 3 <= Len(s)
       /\ s[i] = PFX /\ s[i + 1] = BCH /\ s[i + 2] = LF /\ s[i + 3] = PFX
    THEN LET j == FindLF(s, i + 4) IN
         IF j > 0 /\ j + 1 <= Len(s) /\ s[j + 1] = LF
         THEN [some |-> TRUE, val |-> SubSeq(s, i + 4, j - 1)]
         ELSE NoMatch
    ELSE NoMatch

\* The search given up at the first header line, whatever follows it.
CapturesFrom_FirstHeaderOnly(s, i) ==
    LET hs == { k \in i..(Len(s) - 2) : s[k] = PFX /\ s[k + 1] = BCH /\ s[k + 2] = LF }
    IN  IF hs = {} THEN NoMatch
        ELSE MatchAt(s, CHOOSE k \in hs : \A l \in hs : k <= l)

\* re.captures(&script_source).and_then(|it| it.get(1)...): group 1 of the
\* leftmost match.
RECURSIVE CapturesFrom(_, _)
CapturesFrom(s, i) ==
    IF i > Len(s) THEN NoMatch
    ELSE IF MatchAt(s, i).some THEN MatchAt(s, i)
    ELSE CapturesFrom(s, i + 1)

Captures(s) == CapturesFrom(s, 1)


\* ------------------------------------------------------------------ inputs

\* The three classes of line 67, one class that is none of them, an Item with
\* no class attribute, and an Item whose attribute list is malformed before
\* any class attribute is found.
ScriptClasses == {"Script", "LocalScript", "ModuleScript"}
NoAttr == "<none>"
BadAttr == "<malformed>"
ItemAttrs == ScriptClasses \cup {"Folder", NoAttr, BadAttr}
StringAttrs == {"Name", "Source", "Value", NoAttr, BadAttr}

Names == { << "Main" >> }

\* The payload of the scenario of the specification, section 8.
Example == << PFX, BCH, LF, PFX, "QUJD", LF, LF, "local x = 1" >>
\* A payload without the block.
Plain == << "return 1" >>
\* A block that starts after the sixth line.
Late == << LF, LF, LF, LF, LF, LF, PFX, BCH, LF, PFX, "QUJD", LF, LF >>
Sources == { Example, Plain, Late }
\* A header line followed by a "-- " line with no empty line after it, and
\* then the whole block.
TwoHeaders == << PFX, BCH, LF, PFX, "a", LF, PFX, BCH, LF, PFX, "QUJD", LF, LF >>

Bodies == { << "print(1)" >> }

\* What the service exchange of lines 107-116 can come back with: a response
\* with a status (and a body that dec.text() can or cannot read), or no
\* response at all.
Statuses == {"200", "402", "429", "401", "500", "400", "503"}
Transport == "ERR"
Replies ==
    { [status |-> "200", text |-> TRUE, body |-> b] : b \in Bodies }
    \cup { [status |-> st, text |-> FALSE, body |-> << >>] : st \in Statuses \cup {Transport} }

\* An event of reader.read_event.  A Start of a string element that the loop
\* hands to reader.read_text carries what read_text meets next:
\*   "text"   a Text event, then everything up to the element's End
\*   "empty"  the element's End at once
\*   "bad"    some other event first (CDATA, a child element, a comment)
\*   "eof"    the end of the input before the element's End
\*   "none"   (read_text is not called: the Start alone)
NoBody == [kind |-> "none", text |-> << >>]
Ev(t, n, a, b) == [type |-> t, name |-> n, attr |-> a, body |-> b]
FieldBodies(texts) ==
    { [kind |-> "text", text |-> t] : t \in texts }
    \cup { [kind |-> k, text |-> << >>] : k \in {"empty", "bad", "eof"} }

\* ------------------------------------------------------------------ state

VARIABLES
    pc,             \* "scan" in the loop, "exchange" inside send(), "done", "panic"
    in_script, script_name, script_source, total, decompiled, output,
    watermark,      \* line 103, kept over the exchange
    bytecode,       \* the capture in the request body, lines 110-115
    stack,          \* the reader's open elements, innermost last
    cand_opens,     \* recognized Item opens read so far
    cand_depth,     \* depth of the Item whose open last set the flag; 0 once closed
    own_name, own_source,   \* text of that Item's own Name and Source fields, kept
                            \* until the next recognized Item opens
    nested,         \* that Item has had an Item opened inside it
    fresh_name, fresh_source,   \* the scratch string was captured since that open
    requests,       \* calls of send() so far
    reopens,        \* recognized Item opens read while the flag was already set
    ended,          \* the reader has met the end of the input
    reply,          \* the outcome of the last exchange
    sh,             \* the same pass with every exchange answered 200 with a body
    want,           \* SpecOut: the document read, with every replaced payload
    src_at          \* SpecOut: where in want the current script_source was read

vars == << pc, in_script, script_name, script_source, total, decompiled, output,
           watermark, bytecode, stack, cand_opens, cand_depth, own_name, own_source,
           nested, fresh_name, fresh_source, requests, reopens, ended, reply, sh, want,
           src_at >>

\* The variables of main that the arms of the loop read and write.
Cur == [pc |-> pc, in_script |-> in_script, script_name |-> script_name,
        script_source |-> script_source, total |-> total, decompiled |-> decompiled,
        output |-> output]

Install(s) ==
    /\ pc' = s.pc
    /\ in_script' = s.in_script
    /\ script_name' = s.script_name
    /\ script_source' = s.script_source
    /\ total' = s.total
    /\ decompiled' = s.decompiled
    /\ output' = s.output

\* Lines 52-58.
Fresh == [pc |-> "scan", in_script |-> FALSE, script_name |-> << >>,
          script_source |-> << >>, total |-> 0, decompiled |-> 0, output |-> << >>]

NoReply == [status |-> "<none>", text |-> FALSE, body |-> << >>]

\* ------------------------------------------------------------------ the arms

\* Line 67 with one of the three comparisons left out.
Recognized_NoLocalScript(class) == class = "ModuleScript" \/ class = "Script"

\* Line 67.
Recognized(class) == class = "ModuleScript" \/ class = "LocalScript" \/ class = "Script"

\* The flag set with line 69 left out.
ItemStartArm_NoCount(s, e) ==
    IF e.attr = BadAttr THEN [s EXCEPT !.pc = "panic"]
    ELSE IF e.attr # NoAttr /\ Recognized(e.attr)
         THEN [s EXCEPT !.in_script = TRUE]
         ELSE s

\* Lines 64-72.  attr.as_ref().unwrap() panics on a malformed attribute met
\* before the class attribute.  (u64 total cannot overflow within MaxCand.)
ItemStartArm(s, e) ==
    IF e.attr = BadAttr THEN [s EXCEPT !.pc = "panic"]
    ELSE IF e.attr # NoAttr /\ Recognized(e.attr)
         THEN [s EXCEPT !.in_script = TRUE, !.total = @ + 1]
         ELSE s

\* Lines 73-76.
PropertiesArm(s) == [s EXCEPT !.script_name = << >>, !.script_source = << >>]

\* reader.read_text(e.name(), ..).unwrap(): the text, "" for an empty element,
\* a panic for anything else.
ReadTextOk(b) == b.kind \in {"text", "empty"}

\* Lines 77-86.
StringArm(s, e) ==
    IF e.attr = BadAttr THEN [s EXCEPT !.pc = "panic"]
    ELSE IF e.attr = "Name"
         THEN IF ReadTextOk(e.body) THEN [s EXCEPT !.script_name = e.body.text]
              ELSE [s EXCEPT !.pc = "panic"]
    ELSE IF e.attr = "Source"
         THEN IF ReadTextOk(e.body) THEN [s EXCEPT !.script_source = e.body.text]
              ELSE [s EXCEPT !.pc = "panic"]
    ELSE s

\* Line 88 left out: the flag stays set.
ItemEndArm_NoClear(s) ==
    [s EXCEPT !.decompiled = @ + 1,
              !.pc = IF Captures(s.script_source).some THEN "exchange" ELSE "scan"]

\* Lines 87-105 and 146-148: the flag, the counter, the match; send() follows
\* when there is a capture.
ItemEndArm(s) ==
    [s EXCEPT !.in_script = FALSE,
              !.decompiled = @ + 1,
              !.pc = IF Captures(s.script_source).some THEN "exchange" ELSE "scan"]

\* The replacement also pushed to the output buffer.
OkArm_Emits(s, wm, r) ==
    IF r.text THEN [s EXCEPT !.pc = "scan", !.script_source = wm \o << LF >> \o r.body,
                             !.output = @ \o wm \o << LF >> \o r.body]
    ELSE [s EXCEPT !.pc = "scan"]

\* format!("{}{}", ..): the line feed between watermark and body left out.
OkArm_NoLineFeed(s, wm, r) ==
    IF r.text THEN [s EXCEPT !.pc = "scan", !.script_source = wm \o r.body]
    ELSE [s EXCEPT !.pc = "scan"]

\* Lines 120-127.
OkArm(s, wm, r) ==
    IF r.text THEN [s EXCEPT !.pc = "scan", !.script_source = wm \o << LF >> \o r.body]
    ELSE [s EXCEPT !.pc = "scan"]

\* The returned message stored as the payload instead of printed.
NoticeArm_StoresMessage(s, wm, r) == [s EXCEPT !.pc = "scan", !.script_source = r.body]

\* Lines 128-132.
NoticeArm(s, wm, r) == [s EXCEPT !.pc = "scan"]

\* Lines 133-135.
ServerErrorArm(s, wm, r) == [s EXCEPT !.pc = "scan"]

\* Lines 136-138.
BadRequestArm(s, wm, r) == [s EXCEPT !.pc = "scan"]

\* Line 139.
OtherStatusArm(s, wm, r) == [s EXCEPT !.pc = "scan"]

\* A transport failure answered by calling send() once more.
TransportErrArm_Retries(s, wm, r) == [s EXCEPT !.pc = "exchange"]

\* A transport failure that leaves the loop.
TransportErrArm_Breaks(s, wm, r) == [s EXCEPT !.pc = "done"]

\* Lines 142-144.
TransportErrArm(s, wm, r) == [s EXCEPT !.pc = "scan"]

\* Lines 117-145.
ReplyArm(s, wm, r) ==
    IF r.status = Transport THEN TransportErrArm(s, wm, r)
    ELSE IF r.status = "200" THEN OkArm(s, wm, r)
    ELSE IF r.status \in {"402", "429", "401"} THEN NoticeArm(s, wm, r)
    ELSE IF r.status = "500" THEN ServerErrorArm(s, wm, r)
    ELSE IF r.status = "400" THEN BadRequestArm(s, wm, r)
    ELSE OtherStatusArm(s, wm, r)

\* Line 150, then lines 156-165: the file holds the bytes of output.
EofArm(s) == [s EXCEPT !.pc = "done"]

\* The End arm of line 87 without its in_script guard.
ArmOf_Unguarded(s, e) ==
    IF e.type = "Start" /\ e.name = "Item" THEN "item_start"
    ELSE IF e.type = "Start" /\ s.in_script /\ e.name = "Properties" THEN "properties"
    ELSE IF e.type = "Start" /\ s.in_script /\ e.name = "string" THEN "string"
    ELSE IF e.type = "End" /\ e.name = "Item" THEN "item_end"
    ELSE IF e.type = "Eof" THEN "eof"
    ELSE "other"

\* The match of lines 63-151: the first arm whose pattern and guard accept e.
ArmOf(s, e) ==
    IF e.type = "Start" /\ e.name = "Item" THEN "item_start"
    ELSE IF e.type = "Start" /\ s.in_script /\ e.name = "Properties" THEN "properties"
    ELSE IF e.type = "Start" /\ s.in_script /\ e.name = "string" THEN "string"
    ELSE IF e.type = "End" /\ s.in_script /\ e.name = "Item" THEN "item_end"
    ELSE IF e.type = "Eof" THEN "eof"
    ELSE "other"

\* One iteration of the loop with the exchange, if any, answered by r.
Iterate(s, e, r) ==
    LET arm == ArmOf(s, e) IN
    IF arm = "item_start" THEN ItemStartArm(s, e)
    ELSE IF arm = "properties" THEN PropertiesArm(s)
    ELSE IF arm = "string" THEN StringArm(s, e)
    ELSE IF arm = "item_end"
         THEN LET t == ItemEndArm(s) IN
              IF t.pc = "exchange" THEN ReplyArm(t, Watermark(s.script_source), r) ELSE t
    ELSE IF arm = "eof" THEN EofArm(s)
    ELSE s


\* ------------------------------------------------------------------ the reader

Top == stack[Len(stack)]

\* The document is read as it is chosen: the events that can come next.  The
\* reader checks end names, so an End always closes the innermost open
\* element (a mismatched end tag is an Err event).  A string element that
\* the loop will hand to read_text comes with what read_text meets.  The
\* documents have the shape of an rbxlx file: Items hold Items, Properties
\* and fields; Properties hold fields; a field holds no element.
Inside(names) == stack = << >> \/ Top.name \in names

Offered ==
    LET room == ~want.rec \/ Len(want.evs) < MaxDoc
        items == Cardinality({ i \in 1..Len(stack) : stack[i].name = "Item" })
        item == room /\ Inside({"Item"}) /\ items < MaxDepth
        props == room /\ Inside({"Item"})
        field == room /\ Inside({"Item", "Properties"})
        handed == in_script
    IN    { Ev("Start", "Item", a, NoBody) :
              a \in { x \in ItemAttrs : item /\ (x \in ScriptClasses => cand_opens < MaxCand) } }
     \cup { Ev("Start", n, NoAttr, NoBody) : n \in { x \in {"Properties"} : props } }
     \cup { Ev("Start", "string", a, NoBody) :
              a \in { x \in StringAttrs : field /\ (handed => x \notin {"Name", "Source"}) } }
     \cup { Ev("Start", "string", "Name", b) :
              b \in { x \in FieldBodies(Names) : field /\ handed } }
     \cup { Ev("Start", "string", "Source", b) :
              b \in { x \in FieldBodies(Sources) : field /\ handed } }
     \cup { Ev("End", n, NoAttr, NoBody) :
              n \in { x \in {"Item", "Properties", "string"} :
                        room /\ stack # << >> /\ x = Top.name } }
     \cup { Ev(t, "", NoAttr, NoBody) : t \in { x \in {"Text", "Empty", "Err"} : room } }
     \cup { Ev("Eof", "", NoAttr, NoBody) }

\* The Item that holds the place the reader is at is the tracked candidate.
Direct ==
    /\ cand_depth > 0
    /\ \A i \in (cand_depth + 1)..Len(stack) : stack[i].name # "Item"

\* What one event does to the reader and to the record of the pass.
Track(e) ==
    LET arm == ArmOf(Cur, e)
        candOpen == e.type = "Start" /\ e.name = "Item" /\ e.attr \in ScriptClasses
        candClose == e.type = "End" /\ cand_depth > 0 /\ Len(stack) = cand_depth
        captures(a) == arm = "string" /\ e.attr = a /\ ReadTextOk(e.body)
    IN  /\ stack' = IF e.type = "Start" /\ e.body.kind = "none"
                    THEN Append(stack, [name |-> e.name, cand |-> candOpen])
                    ELSE IF e.type = "End" THEN SubSeq(stack, 1, Len(stack) - 1)
                    ELSE stack
        /\ cand_opens' = IF candOpen THEN cand_opens + 1 ELSE cand_opens
        /\ cand_depth' = IF candOpen THEN Len(stack) + 1
                         ELSE IF candClose THEN 0 ELSE cand_depth
        /\ own_name' = IF candOpen THEN << >>
                       ELSE IF captures("Name") /\ Direct THEN e.body.text
                       ELSE own_name
        /\ own_source' = IF candOpen THEN << >>
                         ELSE IF captures("Source") /\ Direct THEN e.body.text
                         ELSE own_source
        /\ nested' = IF candOpen \/ candClose THEN FALSE
                     ELSE IF cand_depth > 0 /\ e.type = "Start" /\ e.name = "Item" THEN TRUE
                     ELSE nested
        /\ fresh_name' = IF candOpen THEN FALSE
                         ELSE IF captures("Name") THEN TRUE ELSE fresh_name
        /\ fresh_source' = IF candOpen THEN FALSE
                           ELSE IF captures("Source") THEN TRUE ELSE fresh_source
        /\ want' = IF want.rec /\ e.type # "Eof"
                   THEN [want EXCEPT !.evs = Append(@, e)] ELSE want
        /\ src_at' = IF ~want.rec THEN 0
                     ELSE IF captures("Source") /\ e.body.kind = "text" THEN Len(want.evs) + 1
                     ELSE IF captures("Source") \/ arm = "properties" THEN 0
                     ELSE src_at
        /\ reopens' = IF candOpen /\ in_script THEN reopens + 1 ELSE reopens
        /\ ended' = (e.type = "Eof" \/ e.body.kind = "eof")
        /\ reply' = NoReply

\* The same event in the pass whose exchanges all succeed.
Shadow(e) ==
    \E b \in Bodies :
        sh' = IF sh.pc = "scan"
              THEN Iterate(sh, e, [status |-> "200", text |-> TRUE, body |-> b])
              ELSE sh

\* ------------------------------------------------------------------ actions

Quiet == UNCHANGED << watermark, bytecode, requests >>

\* Lines 64-72.
ItemStart ==
    /\ pc = "scan"
    /\ \E e \in Offered :
        /\ ArmOf(Cur, e) = "item_start"
        /\ Install(ItemStartArm(Cur, e))
        /\ Track(e) /\ Shadow(e) /\ Quiet

\* Lines 73-76.
PropertiesStart ==
    /\ pc = "scan"
    /\ \E e \in Offered :
        /\ ArmOf(Cur, e) = "properties"
        /\ Install(PropertiesArm(Cur))
        /\ Track(e) /\ Shadow(e) /\ Quiet

\* Lines 77-86.
StringStart ==
    /\ pc = "scan"
    /\ \E e \in Offered :
        /\ ArmOf(Cur, e) = "string"
        /\ Install(StringArm(Cur, e))
        /\ Track(e) /\ Shadow(e) /\ Quiet

\* Lines 87-116 and 146-148: up to the request being sent, or "no bytecode!".
ItemEnd ==
    /\ pc = "scan"
    /\ \E e \in Offered :
        /\ ArmOf(Cur, e) = "item_end"
        /\ Install(ItemEndArm(Cur))
        /\ LET m == Captures(script_source) IN
           /\ watermark' = IF m.some THEN Watermark(script_source) ELSE << >>
           /\ bytecode' = m.val
           /\ requests' = IF pc' = "exchange" THEN requests + 1 ELSE requests
        /\ Track(e) /\ Shadow(e)

\* Lines 117-145: send() returns.  (An arm that called send() again would
\* leave pc at "exchange" and count one more request.)
Reply ==
    /\ pc = "exchange"
    /\ \E r \in Replies :
        /\ Install(ReplyArm(Cur, watermark, r))
        /\ reply' = r
        /\ want' = IF want.rec /\ src_at > 0 /\ r.status = "200" /\ r.text
                   THEN [want EXCEPT !.evs[src_at].body.text = script_source']
                   ELSE want
    /\ watermark' = << >>
    /\ bytecode' = << >>
    /\ requests' = IF pc' = "exchange" THEN requests + 1 ELSE requests
    /\ UNCHANGED << stack, cand_opens, cand_depth, own_name, own_source, nested,
                    fresh_name, fresh_source, reopens, ended, sh, src_at >>

\* Line 150 and lines 156-165: the loop ends and the buffer is written.
Eof ==
    /\ pc = "scan"
    /\ \E e \in Offered :
        /\ ArmOf(Cur, e) = "eof"
        /\ Install(EofArm(Cur))
        /\ Track(e) /\ Shadow(e) /\ Quiet

\* Line 151: every other event.
Other ==
    /\ pc = "scan"
    /\ \E e \in Offered :
        /\ ArmOf(Cur, e) = "other"
        /\ Install(Cur)
        /\ Track(e) /\ Shadow(e) /\ Quiet

\* ------------------------------------------------------------------ specifications

\* Lines 52-58, before the first event.
Init ==
    /\ pc = Fresh.pc
    /\ in_script = Fresh.in_script
    /\ script_name = Fresh.script_name
    /\ script_source = Fresh.script_source
    /\ total = Fresh.total
    /\ decompiled = Fresh.decompiled
    /\ output = Fresh.output
    /\ watermark = << >>
    /\ bytecode = << >>
    /\ stack = << >>
    /\ cand_opens = 0
    /\ cand_depth = 0
    /\ own_name = << >>
    /\ own_source = << >>
    /\ nested = FALSE
    /\ fresh_name = FALSE
    /\ fresh_source = FALSE
    /\ requests = 0
    /\ reopens = 0
    /\ ended = FALSE
    /\ reply = NoReply
    /\ sh = Fresh
    /\ want = [rec |-> FALSE, evs |-> << >>]
    /\ src_at = 0

Next == ItemStart \/ PropertiesStart \/ StringStart \/ ItemEnd \/ Reply \/ Eof \/ Other

\* The pass over every document within MaxDepth and MaxCand.
Spec == Init /\ [][Next]_vars

\* The Payload Transformer on every payload of at most MaxLen tokens, on
\* every payload that is a header line (at the start, or after three empty
\* lines) followed by at most MaxLen tokens, and on the named payloads: one
\* script Item is open, its Source field has just been read, its End is next.
Tokens == {PFX, BCH, LF, CR, "a"}
Texts == UNION { [1..k -> Tokens] : k \in 0..MaxLen }
Leads == { << >>, << LF, LF, LF >> }
Payloads ==
    Texts \cup { l \o << PFX, BCH, LF >> \o t : l \in Leads, t \in Texts } \cup Sources
        \cup { TwoHeaders }

InitText ==
    /\ pc = "scan"
    /\ in_script = TRUE
    /\ script_name = << >>
    /\ script_source \in Payloads
    /\ total = 1
    /\ decompiled = 0
    /\ output = Fresh.output
    /\ watermark = << >>
    /\ bytecode = << >>
    /\ stack = << [name |-> "Item", cand |-> TRUE] >>
    /\ cand_opens = 1
    /\ cand_depth = 1
    /\ own_name = << >>
    /\ own_source = script_source
    /\ nested = FALSE
    /\ fresh_name = FALSE
    /\ fresh_source = TRUE
    /\ requests = 0
    /\ reopens = 0
    /\ ended = FALSE
    /\ reply = NoReply
    /\ sh = Cur
    /\ want = [rec |-> FALSE, evs |-> << >>]
    /\ src_at = 0

NextText == ItemEnd \/ Reply

SpecText == InitText /\ [][NextText]_vars

\* The pass over every document of at most MaxDoc events, with the document
\* kept so that the file written at the end can be compared with it.
InitOut ==
    /\ pc = Fresh.pc
    /\ in_script = Fresh.in_script
    /\ script_name = Fresh.script_name
    /\ script_source = Fresh.script_source
    /\ total = Fresh.total
    /\ decompiled = Fresh.decompiled
    /\ output = Fresh.output
    /\ watermark = << >>
    /\ bytecode = << >>
    /\ stack = << >>
    /\ cand_opens = 0
    /\ cand_depth = 0
    /\ own_name = << >>
    /\ own_source = << >>
    /\ nested = FALSE
    /\ fresh_name = FALSE
    /\ fresh_source = FALSE
    /\ requests = 0
    /\ reopens = 0
    /\ ended = FALSE
    /\ reply = NoReply
    /\ sh = Fresh
    /\ want = [rec |-> TRUE, evs |-> << >>]
    /\ src_at = 0

SpecOut == InitOut /\ [][Next]_vars

\* The same pass over the same finite documents, with the one thread of main
\* always taking its next step: the loop reads the next event whenever there
\* is one, and a blocking send() returns (with a response or with an error).
LiveOut == InitOut /\ [][Next]_vars /\ WF_vars(Next)


\* ------------------------------------------------------------------ claims

\* This step is an iteration that hands the scratch strings to the Transformer.
Finalizes == decompiled' = decompiled + 1

\* This step reads the End of the tracked candidate.
ClosesCandidate ==
    /\ pc = "scan" /\ cand_depth > 0
    /\ Len(stack) = cand_depth /\ Len(stack') = Len(stack) - 1

\* This step reads the End of an Item.
ClosesItem ==
    /\ pc = "scan" /\ stack # << >> /\ Top.name = "Item"
    /\ Len(stack') = Len(stack) - 1

\* C1: a candidate that has had an Item opened inside it is finalized exactly
\* once, at its own End and at no other, and the name and source handed to
\* the Transformer there are the text of its own Name and Source fields.
C1_NestedOwnFields ==
    [][ /\ (Finalizes /\ cand_depth > 0 /\ nested => ClosesCandidate)
        /\ (ClosesCandidate /\ nested =>
              /\ Finalizes
              /\ script_name = own_name
              /\ script_source = own_source) ]_vars

\* C2: while the flag is set, the Start and the End of an element that is not
\* the candidate leave it set; it is cleared, and the Transformer invoked,
\* only at the End of the candidate whose Start set it.
C2_FlagOnlyAtOwnClose ==
    [][ in_script /\ pc = "scan" /\ pc' # "panic" =>
          IF ClosesCandidate THEN ~in_script' /\ Finalizes
          ELSE in_script' /\ ~Finalizes ]_vars

\* C3: decompiled goes up by exactly one at the End of every recognized Item
\* and at no other step, so once a document whose elements are all closed has
\* been read to its end, decompiled = total = the recognized Item Starts.
C3_OncePerCandidateClose ==
    [][ /\ (ClosesItem /\ Top.cand => Finalizes)
        /\ (decompiled' # decompiled => Finalizes /\ ClosesItem /\ Top.cand)
        /\ (pc' = "done" /\ stack' = << >> =>
              decompiled' = total' /\ total' = cand_opens') ]_vars


\* The three-line pattern somewhere in s: the header line, a line that starts
\* with "-- ", an empty line.
HasBlock(s) ==
    \E i \in 1..Len(s), j \in 1..Len(s) :
        /\ i + 4 <= j /\ j + 1 <= Len(s)
        /\ s[i] = PFX /\ s[i + 1] = BCH /\ s[i + 2] = LF /\ s[i + 3] = PFX
        /\ \A k \in (i + 4)..(j - 1) : s[k] # LF
        /\ s[j] = LF /\ s[j + 1] = LF

\* This step is the return of an exchange with status 200 and a body read.
Succeeds == pc = "exchange" /\ reply'.status = "200" /\ reply'.text

\* A line feed ends s, or a CR stands right before a line feed of s.
HasTerminatorCut(s) ==
    \/ Len(s) > 0 /\ s[Len(s)] = LF
    \/ \E i \in 1..(Len(s) - 1) : s[i] = CR /\ s[i + 1] = LF

\* C4, as stated: after a 200 reply the payload is watermark, line feed, body,
\* the watermark being the first six lines joined by line feeds, which is the
\* whole payload when it has fewer than six lines; the scenario of section 8
\* ends with the payload given there and counters 1/1.
C4_AsStated ==
    [][ Succeeds =>
          /\ script_source' = Join(Take(Lines(script_source), 6)) \o << LF >> \o reply'.body
          /\ (Len(Lines(script_source)) < 6 =>
                script_source' = script_source \o << LF >> \o reply'.body)
          /\ (script_source = Example /\ reply'.body = << "print(1)" >> =>
                /\ script_source' = << PFX, BCH, LF, PFX, "QUJD", LF, LF, "local x = 1",
                                       LF, "print(1)" >>
                /\ decompiled' = 1 /\ total' = 1) ]_vars

\* C4, amended: the watermark is the whole payload when the payload has fewer
\* than six lines, does not end with a line feed and has no CR LF.
C4_SuccessReplacement ==
    [][ Succeeds =>
          /\ script_source' = Join(Take(Lines(script_source), 6)) \o << LF >> \o reply'.body
          /\ (Len(Lines(script_source)) < 6 /\ ~HasTerminatorCut(script_source) =>
                script_source' = script_source \o << LF >> \o reply'.body)
          /\ (script_source = Example /\ reply'.body = << "print(1)" >> =>
                /\ script_source' = << PFX, BCH, LF, PFX, "QUJD", LF, LF, "local x = 1",
                                       LF, "print(1)" >>
                /\ decompiled' = 1 /\ total' = 1) ]_vars

\* A payload of more than six lines has been replaced after a 200 reply.
C4_Witness ==
    /\ pc = "scan" /\ reply.status = "200" /\ reply.text
    /\ Len(Lines(own_source)) > 6
    /\ script_source = Watermark(own_source) \o << LF >> \o reply.body
    /\ Len(script_source) < Len(own_source) + 1 + Len(reply.body)

\* C5: a finalized candidate whose payload lacks the three-line pattern has
\* caused no service request, and its payload is the text read from the input.
C5_NoBlockNoRequest ==
    decompiled = 1 /\ ~HasBlock(own_source) =>
        /\ pc = "scan"
        /\ requests = 0 /\ reply = NoReply /\ bytecode = << >>
        /\ script_source = own_source

\* A payload with the header line and a "-- " line but no empty line after it
\* has been finalized.
C5_Witness ==
    /\ decompiled = 1 /\ requests = 0 /\ script_source = own_source
    /\ Len(own_source) >= 6
    /\ SubSeq(own_source, 1, 4) = << PFX, BCH, LF, PFX >>
    /\ own_source[Len(own_source)] = LF
    /\ ~HasBlock(own_source)

\* C6: an exchange that ends with any status but 200, or with no response,
\* leaves the payload as it was and the pass in the loop.
C6_FailureKeepsPayload ==
    [][ pc = "exchange" /\ reply'.status # "200" =>
          script_source' = script_source /\ pc' = "scan" ]_vars

\* A payload with a block has been through an exchange that was refused.
C6_Witness ==
    /\ pc = "scan" /\ reply.status \in {"402", "429", "401"}
    /\ Captures(script_source).some /\ script_source = own_source


\* C7: whatever the Transformer does with a candidate (no block, a refusal,
\* no response), the pass goes on, and the flag and both counters are at every
\* point what they are in the pass over the same events in which every
\* exchange is answered 200 with a body.
C7_FailureScoped ==
    /\ in_script = sh.in_script
    /\ total = sh.total
    /\ decompiled = sh.decompiled
    /\ (pc # "exchange" => pc = sh.pc)
    /\ (pc = "exchange" => sh.pc = "scan")

\* The pass has ended with two candidates counted and finalized, the second
\* after the exchange of the first had failed: the second read no Source, the
\* payload is still the one read for the first, and both sent a request.
C7_Witness ==
    /\ pc = "done" /\ total = 2 /\ decompiled = 2 /\ requests = 2
    /\ ~fresh_source /\ script_source = Late
    /\ script_source # sh.script_source

\* C8: the file written at the end is the document read, with the payload of
\* every successfully transformed candidate replaced by its replacement.
C8_OutputIsRewrittenInput == pc = "done" /\ want.rec => output = want.evs

\* C9: the output buffer is empty in every state, so the file written at the
\* end is empty.
C9_OutputNeverPopulated == output = << >>

\* The pass has ended with a payload replaced and nothing in the buffer.
C9_Witness ==
    /\ pc = "done" /\ output = << >> /\ stack = << >>
    /\ \E i \in 1..Len(script_source) : script_source[i] = "print(1)"

\* C10: the name and the payload handed to the Transformer were read since
\* the last recognized Item opened, or are empty.
C10_NothingPersists ==
    [][ Finalizes =>
          /\ (~fresh_name => script_name = << >>)
          /\ (~fresh_source => script_source = << >>) ]_vars


\* C11: when the input ends while the flag is set, wherever in the candidate
\* that is, the pass ends normally: nothing is finalized, nothing is sent, the
\* process does not stop with an error.
C11_UnterminatedDropped ==
    [][ in_script /\ pc = "scan" /\ ended' =>
          /\ pc' = "done"
          /\ decompiled' = decompiled
          /\ requests' = requests ]_vars

\* C12: once the loop runs, nothing a document holds and nothing an exchange
\* comes back with stops the process: the loop is left only at the end of
\* the input.
C12_NothingAborts == pc # "panic"


\* C13: as long as no Item Start with one of the three script classes has
\* been read, both counters are zero, the flag is clear, and nothing has been
\* handed to the Transformer or sent.
C13_NoCandidateNoWork ==
    cand_opens = 0 =>
        /\ total = 0 /\ decompiled = 0
        /\ ~in_script
        /\ requests = 0 /\ pc # "exchange" /\ reply = NoReply

\* A document without a script Item has been read to its end, two Items
\* of other classes still open in it.
C13_Witness ==
    /\ pc = "done" /\ cand_opens = 0 /\ total = 0 /\ decompiled = 0
    /\ Len(stack) >= 2 /\ stack[1].name = "Item" /\ stack[2].name = "Item"


\* C14: send() is called once in a finalization whose payload holds the
\* block, not at all in any other, and never again whatever comes back; so
\* the requests never outnumber the finalizations.
C14_NoRetries ==
    [][ /\ (Finalizes =>
              requests' = requests + (IF HasBlock(script_source) THEN 1 ELSE 0))
        /\ (~Finalizes => requests' = requests)
        /\ (pc = "exchange" => pc' = "scan")
        /\ requests' <= decompiled' ]_vars

\* An exchange has ended with no response: one finalization, one request,
\* and the loop is running again.
C14_Witness ==
    /\ pc = "scan" /\ reply.status = Transport
    /\ decompiled = 1 /\ requests = 1
    /\ HasBlock(script_source)


\* C15: from the Start of a recognized Item to its finalization no other
\* recognized Item's Start is taken up, and while send() has not returned no
\* event is read; one candidate and one request at a time.
C15_OneAtATime ==
    [][ /\ (in_script /\ pc = "scan" => total' = total /\ cand_opens' = cand_opens)
        /\ (pc = "exchange" =>
              /\ stack' = stack /\ cand_opens' = cand_opens /\ ended' = ended
              /\ total' = total /\ decompiled' = decompiled
              /\ requests' = requests) ]_vars


\* C16: over a finite document the pass comes to its end: every iteration
\* reads on, every exchange returns, and the end of the input ends the loop,
\* after which the counters stay as they are.
C16_PassEnds == <>(pc = "done")

\* Checked beside C16: the process does stop, in the Eof arm or in a panic.
C16_ProcessStops == <>(pc \in {"done", "panic"})


\* A step that reads the Start of an Item whose class is one of the three.
OpensRecognized ==
    /\ Len(stack') = Len(stack) + 1
    /\ stack'[Len(stack')].name = "Item"
    /\ stack'[Len(stack')].cand

\* C17: the Start of an Item sets the flag and adds one to total exactly when
\* its class is Script, LocalScript or ModuleScript; the Start of an Item of
\* another class or of no class, and the Start of any other element, leave
\* flag and total alone; total is the number of recognized Item Starts read.
C17_RecognizedOpens ==
    [][ /\ (OpensRecognized => in_script' /\ total' = total + 1)
        /\ (~OpensRecognized => total' = total)
        /\ (~OpensRecognized /\ Len(stack') >= Len(stack) => in_script' = in_script)
        /\ total' = cand_opens' ]_vars

\* A Folder was opened (nothing counted), then a script Item inside it.
C17_Witness ==
    /\ pc = "scan" /\ total = 1 /\ cand_opens = 1 /\ in_script
    /\ Len(stack) = 2
    /\ stack[1].name = "Item" /\ ~stack[1].cand
    /\ stack[2].name = "Item" /\ stack[2].cand


\* The text "-- Bytecode (Base64):", a line feed, "-- ", a run with no line
\* feed in it, and two line feeds, standing in s from i with the run ending
\* before j.
PatternAt(s, i, j) ==
    /\ i + 4 <= j /\ j + 1 <= Len(s)
    /\ s[i] = PFX /\ s[i + 1] = BCH /\ s[i + 2] = LF /\ s[i + 3] = PFX
    /\ \A k \in (i + 4)..(j - 1) : s[k] # LF
    /\ s[j] = LF /\ s[j + 1] = LF

\* The run of the first place of s where the whole pattern stands.
BlockOf(s) ==
    LET at(i) == \E j \in 1..Len(s) : PatternAt(s, i, j)
        i == CHOOSE x \in 1..Len(s) : at(x) /\ \A y \in 1..(x - 1) : ~at(y)
        j == CHOOSE x \in 1..Len(s) : PatternAt(s, i, x)
    IN  SubSeq(s, i + 4, j - 1)

\* The first header line of s, 0 when there is none.
FirstHeader(s) ==
    LET hs == { k \in 1..(Len(s) - 2) : s[k] = PFX /\ s[k + 1] = BCH /\ s[k + 2] = LF }
    IN  IF hs = {} THEN 0 ELSE CHOOSE k \in hs : \A l \in hs : k <= l

\* The line after the first header line of s, without its "-- ", when it has
\* one and an empty line follows it.
StatedBlock(s) ==
    LET h == FirstHeader(s) IN
    IF h = 0 \/ h + 3 > Len(s) THEN NoMatch
    ELSE IF s[h + 3] # PFX THEN NoMatch
    ELSE LET j == FindLF(s, h + 4) IN
         IF j > 0 /\ j + 1 <= Len(s) /\ s[j + 1] = LF
         THEN [some |-> TRUE, val |-> SubSeq(s, h + 4, j - 1)]
         ELSE NoMatch

\* The candidate has been finalized and no exchange has returned yet.
JustFinalized == decompiled = 1 /\ reply = NoReply

\* C18 as stated: the block sent is the line after the first header line
\* without its "-- ", and when that line lacks the "-- " or no empty line
\* follows it there is no block.
C18_AsStated ==
    JustFinalized =>
        IF StatedBlock(own_source).some
        THEN pc = "exchange" /\ requests = 1 /\ bytecode = StatedBlock(own_source).val
        ELSE pc = "scan" /\ requests = 0 /\ bytecode = << >>

\* C18: the block sent is the run between "-- " and the line feed at the
\* first place of the payload where the header, a line feed, "-- ", a run
\* without line feed and two line feeds stand in a row; a payload with no
\* such place yields no block and no request.
C18_LeftmostPattern ==
    JustFinalized =>
        IF HasBlock(own_source)
        THEN pc = "exchange" /\ requests = 1 /\ bytecode = BlockOf(own_source)
        ELSE pc = "scan" /\ requests = 0 /\ bytecode = << >>

\* The block of the second header was sent: the first header line is
\* followed by a "-- " line with no empty line after it.
C18_Witness ==
    /\ JustFinalized /\ pc = "exchange" /\ requests = 1
    /\ own_source = TwoHeaders
    /\ ~StatedBlock(own_source).some
    /\ bytecode = << "QUJD" >>


\* Candidates taken up and not finalized, the open one included, fit in total.
Accounted(flag, done, all) == done + (IF flag THEN 1 ELSE 0) <= all

\* C19: decompiled + (1 if in_script) <= total in every state; neither
\* counter ever goes down; decompiled goes up only from a state where
\* in_script is set.
C19_CountersBounded ==
    [][ /\ Accounted(in_script, decompiled, total)
        /\ Accounted(in_script', decompiled', total')
        /\ decompiled' <= total'
        /\ total' >= total /\ decompiled' >= decompiled
        /\ (decompiled' # decompiled => in_script) ]_vars

\* One candidate finalized and a second one open: the bound is met exactly.
C19_Witness ==
    /\ pc = "scan" /\ in_script /\ decompiled = 1 /\ total = 2

\* No Item is open where the reader stands.
ItemsClosed == \A i \in 1..Len(stack) : stack[i].name # "Item"

\* C20: when the input ends with every Item closed, in_script is FALSE and
\* total - decompiled is the number of recognized Item Starts read while
\* in_script was already set.
C20_WellNestedBalance ==
    pc = "done" /\ ItemsClosed => ~in_script /\ total - decompiled = reopens

\* A script Item inside a script Item, both closed, then the end of the input.
C20_Witness ==
    /\ pc = "done" /\ stack = << >>
    /\ reopens = 1 /\ total = 2 /\ decompiled = 1 /\ ~in_script

====
